---- MODULE Spec2Model ----
(***************************************************************************)
(* Model of crates/crontab_parser/src/nom_crontab_timer.rs: the crontab    *)
(* expression parser built from nom combinators.                           *)
(*                                                                         *)
(* A text (&str) is a sequence of one-character strings.  A parse result   *)
(* (IResult) is a record [ok, val, rest]: ok = TRUE is Ok((rest, val)),    *)
(* ok = FALSE is Err(Err::Error) carrying the input `rest` at which the    *)
(* failing parser was applied.  The combinators used here are all          *)
(* `complete` ones without `cut`, so Err::Incomplete and Err::Failure      *)
(* never arise.                                                            *)
(***************************************************************************)
EXTENDS Integers, Sequences, FiniteSets

VARIABLES
    arg,        \* nom_crontab_timer: the text the function was called with
    input,      \* nom_crontab_timer: the (shadowed) local `input`
    pc,         \* nom_crontab_timer: position in the function body
    minutes,    \* nom_crontab_timer: local `minutes` (<<>> before it is bound)
    hours,      \* nom_crontab_timer: local `hours`
    days,       \* nom_crontab_timer: local `days`
    months,     \* nom_crontab_timer: local `months`
    dows,       \* nom_crontab_timer: local `dows`
    result,     \* nom_crontab_timer: the returned IResult
    vPart,      \* a call of one of the field parsers: its CrontabPart
    vText,      \* ... its input text
    vFn,        \* ... which parser was called ("none" before the call)
    vOut        \* ... the IResult it returned

vars == <<arg, input, pc, minutes, hours, days, months, dows, result,
          vPart, vText, vFn, vOut>>

(***************************************************************************)
(* Bounds of the model.                                                    *)
(***************************************************************************)
\* longest text drawn from the whole alphabet
MaxRaw == 3
\* largest number written in a generated numeric literal
MaxNum == 61
\* most atoms in a generated comma-separated list
MaxAtoms == 3

(***************************************************************************)
(* Texts.                                                                  *)
(***************************************************************************)
Digit == {"0", "1", "2", "3", "4", "5", "6", "7", "8", "9"}

\* char::to_digit(10), for a decimal digit
DigitVal(c) ==
    CASE c = "0" -> 0 [] c = "1" -> 1 [] c = "2" -> 2 [] c = "3" -> 3
      [] c = "4" -> 4 [] c = "5" -> 5 [] c = "6" -> 6 [] c = "7" -> 7
      [] c = "8" -> 8 [] c = "9" -> 9

\* the text after the first n characters
Drop(s, n) == SubSeq(s, n + 1, Len(s))

\* the first n characters
Take(s, n) == SubSeq(s, 1, n)

(***************************************************************************)
(* CrontabPart and its boundaries.                                         *)
(***************************************************************************)
CrontabPart == {"Minute", "Hours", "Days", "Months", "DaysOfWeek"}

boundaries(part) ==
    CASE part = "Minute"     -> <<0, 59>>
      [] part = "Hours"      -> <<0, 23>>
      [] part = "Days"       -> <<1, 31>>
      [] part = "Months"     -> <<1, 12>>
      [] part = "DaysOfWeek" -> <<0, 6>>

(***************************************************************************)
(* CrontabValue.                                                           *)
(***************************************************************************)
Number(n)          == <<"Number", n>>
Range(left, right) == <<"Range", left, right>>
Step(d)            == <<"Step", d>>
Any                == <<"Any">>

(***************************************************************************)
(* IResult.                                                                *)
(***************************************************************************)
Ok(rest, val) == [ok |-> TRUE, val |-> val, rest |-> rest]
Err(at)       == [ok |-> FALSE, val |-> <<>>, rest |-> at]

(***************************************************************************)
(* nom::character::complete::u32: the maximal run of decimal digits, with  *)
(* checked_mul(10) / checked_add(d) on a u32; no sign is accepted.         *)
(* u32::MAX = 4294967295 = U32MaxDiv10 * 10 + U32MaxMod10.                 *)
(***************************************************************************)
U32MaxDiv10 == 429496729
U32MaxMod10 == 5

RECURSIVE U32Loop(_, _, _)
U32Loop(i, pos, value) ==
    IF pos = Len(i) THEN Ok(<<>>, value)
    ELSE IF i[pos + 1] \notin Digit
         THEN IF pos = 0 THEN Err(i) ELSE Ok(Drop(i, pos), value)
    ELSE LET d == DigitVal(i[pos + 1]) IN
         IF value > U32MaxDiv10 \/ (value = U32MaxDiv10 /\ d > U32MaxMod10)
         THEN Err(i)
         ELSE U32Loop(i, pos + 1, value * 10 + d)

\* a number parser that also takes a leading '+', as the signed ones do
U32Signed(i) ==
    IF Len(i) = 0 THEN Err(i)
    ELSE IF i[1] = "+" /\ Len(i) > 1 THEN U32Loop(Drop(i, 1), 0, 0)
    ELSE U32Loop(i, 0, 0)

U32(i) == IF Len(i) = 0 THEN Err(i) ELSE U32Loop(i, 0, 0)

\* nom::character::complete::char(c)
Char(c, i) ==
    IF Len(i) > 0 /\ i[1] = c THEN Ok(Drop(i, 1), c) ELSE Err(i)

(***************************************************************************)
(* The field parsers.  A combinator hands the output of one parser to the  *)
(* next; here  CHOOSE out \in {e(r) : r \in {p}} : TRUE  is e applied to   *)
(* the result r of the parser p, computed once.                            *)
(***************************************************************************)
\* the bound check with an exclusive maximum: v >= min && v < max
crontab_number_exclusive(part, i) ==
    LET min == boundaries(part)[1]
        max == boundaries(part)[2]
    IN  CHOOSE out \in {IF r.ok /\ r.val >= min /\ r.val < max THEN r ELSE Err(i)
                        : r \in {U32(i)}} : TRUE

\* verify(complete::u32, |v| v >= &min && v <= &max)
crontab_number(part, i) ==
    LET min == boundaries(part)[1]
        max == boundaries(part)[2]
    IN  CHOOSE out \in {IF r.ok /\ r.val >= min /\ r.val <= max THEN r ELSE Err(i)
                        : r \in {U32(i)}} : TRUE

\* the range without the verify of left < right
crontab_range_unverified(part, i) ==
    LET Right(l, s) ==
            CHOOSE out \in {IF ~r.ok THEN r ELSE Ok(r.rest, <<l.val, r.val>>)
                            : r \in {crontab_number(part, s.rest)}} : TRUE
        Dash(l) ==
            CHOOSE out \in {IF ~s.ok THEN s ELSE Right(l, s)
                            : s \in {Char("-", l.rest)}} : TRUE
    IN  CHOOSE out \in {IF ~l.ok THEN l ELSE Dash(l)
                        : l \in {crontab_number(part, i)}} : TRUE

\* verify(separated_pair(number, char('-'), number), |(left, right)| left < right)
crontab_range(part, i) ==
    LET Right(l, s) ==
            CHOOSE out \in {IF ~r.ok THEN r
                            ELSE IF l.val < r.val THEN Ok(r.rest, <<l.val, r.val>>)
                            ELSE Err(i)
                            : r \in {crontab_number(part, s.rest)}} : TRUE
        Dash(l) ==
            CHOOSE out \in {IF ~s.ok THEN s ELSE Right(l, s)
                            : s \in {Char("-", l.rest)}} : TRUE
    IN  CHOOSE out \in {IF ~l.ok THEN l ELSE Dash(l)
                        : l \in {crontab_number(part, i)}} : TRUE

\* preceded(char('*'), opt(preceded(char('/'), number))); the Option<u32> is
\* <<>> for None and <<d>> for Some(d)
crontab_wildcard(part, i) ==
    LET Stride(w, s) ==
            CHOOSE out \in {IF n.ok THEN Ok(n.rest, <<n.val>>) ELSE Ok(w.rest, <<>>)
                            : n \in {crontab_number(part, s.rest)}} : TRUE
        Slash(w) ==
            CHOOSE out \in {IF s.ok THEN Stride(w, s) ELSE Ok(w.rest, <<>>)
                            : s \in {Char("/", w.rest)}} : TRUE
    IN  CHOOSE out \in {IF ~w.ok THEN w ELSE Slash(w)
                        : w \in {Char("*", i)}} : TRUE

\* alt((map(range, Range), map(wildcard, Step | Any), map(number, Number)))
crontab_value(part, i) ==
    LET Third ==
            CHOOSE out \in {IF n.ok THEN Ok(n.rest, Number(n.val)) ELSE n
                            : n \in {crontab_number(part, i)}} : TRUE
        Second ==
            CHOOSE out \in {IF w.ok
                            THEN Ok(w.rest, IF w.val = <<>> THEN Any ELSE Step(w.val[1]))
                            ELSE Third
                            : w \in {crontab_wildcard(part, i)}} : TRUE
    IN  CHOOSE out \in {IF r.ok THEN Ok(r.rest, Range(r.val[1], r.val[2])) ELSE Second
                        : r \in {crontab_range(part, i)}} : TRUE

\* a list loop that drops a value equal to the one before it
RECURSIVE SeparatedLoopDedup(_, _, _)
SeparatedLoopDedup(part, i, res) ==
    LET Element(s) ==
            CHOOSE out \in {IF ~v.ok THEN Ok(i, res)
                            ELSE SeparatedLoopDedup(part, v.rest,
                                     IF res[Len(res)] = v.val THEN res
                                     ELSE Append(res, v.val))
                            : v \in {crontab_value(part, s.rest)}} : TRUE
    IN  CHOOSE out \in {IF ~s.ok THEN Ok(i, res) ELSE Element(s)
                        : s \in {Char(",", i)}} : TRUE

\* the loop of separated_list1(char(','), value): i is the input after the
\* last value, res the values so far
RECURSIVE SeparatedLoop(_, _, _)
SeparatedLoop(part, i, res) ==
    LET Element(s) ==
            CHOOSE out \in {IF ~v.ok THEN Ok(i, res)
                            ELSE SeparatedLoop(part, v.rest, Append(res, v.val))
                            : v \in {crontab_value(part, s.rest)}} : TRUE
    IN  CHOOSE out \in {IF ~s.ok THEN Ok(i, res) ELSE Element(s)
                        : s \in {Char(",", i)}} : TRUE

\* separated_list1(char(','), crontab_value(part))
crontab_values(part, i) ==
    CHOOSE out \in {IF ~v.ok THEN v ELSE SeparatedLoop(part, v.rest, <<v.val>>)
                    : v \in {crontab_value(part, i)}} : TRUE

\* a field terminated by an optional space instead of a mandatory one
TerminatedValuesOptSpace(part, i) ==
    LET Space(v) ==
            CHOOSE out \in {IF ~s.ok THEN Ok(v.rest, v.val) ELSE Ok(s.rest, v.val)
                            : s \in {Char(" ", v.rest)}} : TRUE
    IN  CHOOSE out \in {IF ~v.ok THEN v ELSE Space(v)
                        : v \in {crontab_values(part, i)}} : TRUE

\* terminated(crontab_values(part), char(' '))
TerminatedValues(part, i) ==
    LET Space(v) ==
            CHOOSE out \in {IF ~s.ok THEN s ELSE Ok(s.rest, v.val)
                            : s \in {Char(" ", v.rest)}} : TRUE
    IN  CHOOSE out \in {IF ~v.ok THEN v ELSE Space(v)
                        : v \in {crontab_values(part, i)}} : TRUE

(***************************************************************************)
(* nom_crontab_timer, as the function it is and as the steps it takes.     *)
(***************************************************************************)
CrontabTimer(mi, ho, da, mo, dw) ==
    [minutes |-> mi, hours |-> ho, days |-> da, months |-> mo, dows |-> dw]

nom_crontab_timer(i) ==
    LET Dows(mi, ho, da, mo) ==
            CHOOSE out \in {IF ~dw.ok THEN dw
                            ELSE Ok(dw.rest,
                                    CrontabTimer(mi.val, ho.val, da.val, mo.val, dw.val))
                            : dw \in {crontab_values("DaysOfWeek", mo.rest)}} : TRUE
        Months(mi, ho, da) ==
            CHOOSE out \in {IF ~mo.ok THEN mo ELSE Dows(mi, ho, da, mo)
                            : mo \in {TerminatedValues("Months", da.rest)}} : TRUE
        Days(mi, ho) ==
            CHOOSE out \in {IF ~da.ok THEN da ELSE Months(mi, ho, da)
                            : da \in {TerminatedValues("Days", ho.rest)}} : TRUE
        Hours(mi) ==
            CHOOSE out \in {IF ~ho.ok THEN ho ELSE Days(mi, ho)
                            : ho \in {TerminatedValues("Hours", mi.rest)}} : TRUE
    IN  CHOOSE out \in {IF ~mi.ok THEN mi ELSE Hours(mi)
                        : mi \in {TerminatedValues("Minute", i)}} : TRUE

valueVars == <<vPart, vText, vFn, vOut>>
timerVars == <<arg, input, pc, minutes, hours, days, months, dows, result>>

\* `let (input, x) = parser.parse(input)?;`: on Err the function returns it
ParseMinutes ==
    /\ pc = "minutes"
    /\ \E r \in {TerminatedValues("Minute", input)} :
       IF r.ok
       THEN /\ minutes' = r.val
            /\ input' = r.rest
            /\ pc' = "hours"
            /\ UNCHANGED result
       ELSE /\ result' = r
            /\ pc' = "done"
            /\ UNCHANGED <<minutes, input>>
    /\ UNCHANGED <<arg, hours, days, months, dows>>
    /\ UNCHANGED valueVars

ParseHours ==
    /\ pc = "hours"
    /\ \E r \in {TerminatedValues("Hours", input)} :
       IF r.ok
       THEN /\ hours' = r.val
            /\ input' = r.rest
            /\ pc' = "days"
            /\ UNCHANGED result
       ELSE /\ result' = r
            /\ pc' = "done"
            /\ UNCHANGED <<hours, input>>
    /\ UNCHANGED <<arg, minutes, days, months, dows>>
    /\ UNCHANGED valueVars

ParseDays ==
    /\ pc = "days"
    /\ \E r \in {TerminatedValues("Days", input)} :
       IF r.ok
       THEN /\ days' = r.val
            /\ input' = r.rest
            /\ pc' = "months"
            /\ UNCHANGED result
       ELSE /\ result' = r
            /\ pc' = "done"
            /\ UNCHANGED <<days, input>>
    /\ UNCHANGED <<arg, minutes, hours, months, dows>>
    /\ UNCHANGED valueVars

ParseMonths ==
    /\ pc = "months"
    /\ \E r \in {TerminatedValues("Months", input)} :
       IF r.ok
       THEN /\ months' = r.val
            /\ input' = r.rest
            /\ pc' = "dows"
            /\ UNCHANGED result
       ELSE /\ result' = r
            /\ pc' = "done"
            /\ UNCHANGED <<months, input>>
    /\ UNCHANGED <<arg, minutes, hours, days, dows>>
    /\ UNCHANGED valueVars

\* the fifth field parsed like the first four, with a terminating space
ParseDowsTerminated ==
    /\ pc = "dows"
    /\ \E r \in {TerminatedValues("DaysOfWeek", input)} :
       IF r.ok
       THEN /\ dows' = r.val
            /\ input' = r.rest
            /\ result' = Ok(r.rest, CrontabTimer(minutes, hours, days, months, r.val))
       ELSE /\ result' = r
            /\ UNCHANGED <<dows, input>>
    /\ pc' = "done"
    /\ UNCHANGED <<arg, minutes, hours, days, months>>
    /\ UNCHANGED valueVars

\* the fifth field's remainder dropped: the `input` of before the field is
\* returned
ParseDowsStaleInput ==
    /\ pc = "dows"
    /\ \E r \in {crontab_values("DaysOfWeek", input)} :
       IF r.ok
       THEN /\ dows' = r.val
            /\ input' = r.rest
            /\ result' = Ok(input, CrontabTimer(minutes, hours, days, months, r.val))
       ELSE /\ result' = r
            /\ UNCHANGED <<dows, input>>
    /\ pc' = "done"
    /\ UNCHANGED <<arg, minutes, hours, days, months>>
    /\ UNCHANGED valueVars

\* the fifth field has no terminating space; then Ok((input, CrontabTimer {..}))
ParseDows ==
    /\ pc = "dows"
    /\ \E r \in {crontab_values("DaysOfWeek", input)} :
       IF r.ok
       THEN /\ dows' = r.val
            /\ input' = r.rest
            /\ result' = Ok(r.rest, CrontabTimer(minutes, hours, days, months, r.val))
       ELSE /\ result' = r
            /\ UNCHANGED <<dows, input>>
    /\ pc' = "done"
    /\ UNCHANGED <<arg, minutes, hours, days, months>>
    /\ UNCHANGED valueVars

(***************************************************************************)
(* Calls of the field parsers on their own.                                *)
(***************************************************************************)
CallNumber ==
    /\ vFn = "none"
    /\ vFn' = "crontab_number"
    /\ vOut' = crontab_number(vPart, vText)
    /\ UNCHANGED <<vPart, vText>>
    /\ UNCHANGED timerVars

CallValue ==
    /\ vFn = "none"
    /\ vFn' = "crontab_value"
    /\ vOut' = crontab_value(vPart, vText)
    /\ UNCHANGED <<vPart, vText>>
    /\ UNCHANGED timerVars

CallValues ==
    /\ vFn = "none"
    /\ vFn' = "crontab_values"
    /\ vOut' = crontab_values(vPart, vText)
    /\ UNCHANGED <<vPart, vText>>
    /\ UNCHANGED timerVars

(***************************************************************************)
(* The texts the parsers are run on.                                       *)
(***************************************************************************)
RECURSIVE Dec(_)
\* the decimal text of n >= 0
Dec(n) ==
    LET d == <<"0", "1", "2", "3", "4", "5", "6", "7", "8", "9">>[(n % 10) + 1]
    IN  IF n < 10 THEN <<d>> ELSE Append(Dec(n \div 10), d)

RECURSIVE Concat(_)
\* the concatenation of a sequence of texts
Concat(ts) == IF ts = <<>> THEN <<>> ELSE Head(ts) \o Concat(Tail(ts))

RECURSIVE JoinWith(_, _)
\* the texts ts joined by the separator text sep
JoinWith(ts, sep) ==
    IF Len(ts) = 0 THEN <<>>
    ELSE IF Len(ts) = 1 THEN ts[1]
    ELSE ts[1] \o sep \o JoinWith(Tail(ts), sep)

SeqsUpTo(S, n) == UNION {[1..k -> S] : k \in 0..n}

Alphabet == {"0", "1", "7", "*", "/", "-", ",", " ", "!", "+"}

Tails == {<<>>, <<"!">>, <<",">>, <<" ">>, <<"0">>}

RawTexts == SeqsUpTo(Alphabet, MaxRaw)

NumberTexts == {Dec(n) \o t : n \in 0..MaxNum, t \in Tails}

RangeTexts ==
    {Dec(a) \o <<"-">> \o Dec(b) \o t : a \in 0..MaxNum, b \in 0..MaxNum, t \in {<<>>, <<"!">>}}

StepTexts == {<<"*", "/">> \o Dec(d) \o t : d \in 0..MaxNum, t \in Tails}

\* atoms around the boundaries of a part: valid ones and invalid ones
AtomSamples(part) ==
    LET min == boundaries(part)[1]
        max == boundaries(part)[2]
    IN  { Dec(min), Dec(max), Dec(max + 1), <<"0">> \o Dec(max),
          <<"*">>, <<"*", "/">> \o Dec(max), <<"*", "/">> \o Dec(max + 1),
          Dec(min) \o <<"-">> \o Dec(max), Dec(max) \o <<"-">> \o Dec(min),
          Dec(max) \o <<"-">> \o Dec(max),
          <<>>, <<"*", "/", "1", "!">> }

\* fewer of them, for the longer lists
ListAtoms(part) ==
    LET min == boundaries(part)[1]
        max == boundaries(part)[2]
    IN  { Dec(min), Dec(max), Dec(max + 1),
          <<"*">>, <<"*", "/">> \o Dec(max),
          Dec(min) \o <<"-">> \o Dec(max),
          <<>> }

ListTexts(part) ==
    {JoinWith(as, <<",">>) : as \in SeqsUpTo(ListAtoms(part), MaxAtoms) \ {<<>>}}

\* runs of digits no u32 holds: 4294967296 = u32::MAX + 1, and 99999999999
LongDigitTexts ==
    { <<"4", "2", "9", "4", "9", "6", "7", "2", "9", "6">>,
      <<"9", "9", "9", "9", "9", "9", "9", "9", "9", "9", "9">>,
      <<"0", "0", "0", "0", "0", "0", "0", "0", "0", "0", "0", "5">> }

ValueInputs(part) ==
    RawTexts \cup NumberTexts \cup RangeTexts \cup StepTexts \cup ListTexts(part)
        \cup LongDigitTexts

InitValue ==
    /\ vPart \in CrontabPart
    /\ vText \in ValueInputs(vPart)
    /\ vFn = "none"
    /\ vOut = <<>>
    /\ arg = <<>> /\ input = <<>> /\ pc = "idle" /\ result = <<>>
    /\ minutes = <<>> /\ hours = <<>> /\ days = <<>> /\ months = <<>> /\ dows = <<>>

NextValue == CallNumber \/ CallValue \/ CallValues

SpecValue == InitValue /\ [][NextValue]_vars

(***************************************************************************)
(* The texts nom_crontab_timer is run on: fields joined by gaps, after a   *)
(* lead and before a suffix.                                               *)
(***************************************************************************)
\* most atoms in a generated field of a whole expression
MaxFieldAtoms == 2

RECURSIVE Interleave(_, _)
\* fields[1] gaps[1] fields[2] ... fields[n], for Len(gaps) = Len(fields) - 1
Interleave(fields, gaps) ==
    IF Len(fields) = 0 THEN <<>>
    ELSE IF Len(fields) = 1 THEN fields[1]
    ELSE fields[1] \o gaps[1] \o Interleave(Tail(fields), Tail(gaps))

PartOf == <<"Minute", "Hours", "Days", "Months", "DaysOfWeek">>

OneSpace == <<" ">>

Suffixes == {<<>>, <<" ", "f">>, <<" ">>, <<"!">>, <<",">>, <<"/", "9">>, <<"-", "0">>}

\* plain valid fields
Small(part) == {<<"*">>, Dec(boundaries(part)[2])}

FieldTexts(part) ==
    {JoinWith(as, <<",">>) : as \in SeqsUpTo(AtomSamples(part), MaxFieldAtoms) \ {<<>>}}

\* one field drawn from FieldTexts, the others plain, single spaces between
OneFieldInputs ==
    UNION { UNION { { Interleave([i \in 1..5 |-> IF i = k THEN f ELSE o], [i \in 1..4 |-> OneSpace]) \o s
                      : f \in FieldTexts(PartOf[k]) }
                    : o \in {<<"*">>, <<"1">>}, s \in {<<>>, <<" ", "f">>, <<",">>} }
            : k \in 1..5 }

BadGaps == {<<>>, <<" ", " ">>, <<",">>, <<"!">>}

\* n plain fields, at most one gap that is not a single space, an optional
\* leading space
GapInputs ==
    UNION { { lead \o Interleave(fs, [i \in 1..(n - 1) |-> IF i = b THEN g ELSE OneSpace]) \o s
              : fs \in {x \in [1..n -> {<<"*">>, <<"1">>, <<"1", "2">>}] :
                              \A i \in 1..n : x[i] \in Small(PartOf[i])},
                lead \in {<<>>, OneSpace},
                s \in Suffixes }
            : n \in 1..5, b \in 0..4, g \in BadGaps }

\* the inputs of the tests: "* * * * * foo", "*/7,8,30-35 * 3,*/4 * *,4 bar"
\* and "*/7!,8,30-35 * 3,*/4 * *,4 bar"
TestInputs ==
    { <<"*", " ", "*", " ", "*", " ", "*", " ", "*", " ", "f", "o", "o">>,
      <<"*", "/", "7", ",", "8", ",", "3", "0", "-", "3", "5", " ", "*", " ",
        "3", ",", "*", "/", "4", " ", "*", " ", "*", ",", "4", " ", "b", "a", "r">>,
      <<"*", "/", "7", "!", ",", "8", ",", "3", "0", "-", "3", "5", " ", "*", " ",
        "3", ",", "*", "/", "4", " ", "*", " ", "*", ",", "4", " ", "b", "a", "r">> }

TimerInputs == OneFieldInputs \cup GapInputs \cup TestInputs

InitTimer ==
    /\ arg \in TimerInputs
    /\ input = arg
    /\ pc = "minutes"
    /\ result = <<>>
    /\ minutes = <<>> /\ hours = <<>> /\ days = <<>> /\ months = <<>> /\ dows = <<>>
    /\ vPart = "Minute" /\ vText = <<>> /\ vFn = "idle" /\ vOut = <<>>

NextTimer == ParseMinutes \/ ParseHours \/ ParseDays \/ ParseMonths \/ ParseDows

SpecTimer == InitTimer /\ [][NextTimer]_vars

(***************************************************************************)
(* What the specification says of a text, stated without the parsers.      *)
(***************************************************************************)
Min(part) == boundaries(part)[1]
Max(part) == boundaries(part)[2]

IsDigits(t) == Len(t) > 0 /\ \A k \in 1..Len(t) : t[k] \in Digit

\* length of the maximal run of decimal digits t starts with
DigitRun(t) ==
    IF \A k \in 1..Len(t) : t[k] \in Digit THEN Len(t)
    ELSE (CHOOSE k \in 1..Len(t) : t[k] \notin Digit /\ \A j \in 1..(k - 1) : t[j] \in Digit) - 1

RECURSIVE StripZeros(_)
StripZeros(ds) ==
    IF Len(ds) > 1 /\ ds[1] = "0" THEN StripZeros(Tail(ds)) ELSE ds

RECURSIVE Pow10(_)
Pow10(n) == IF n = 0 THEN 1 ELSE 10 * Pow10(n - 1)

RECURSIVE PlaceSum(_, _)
\* sum of the digits of ds at positions k..Len(ds), each times its power of ten
PlaceSum(ds, k) ==
    IF k > Len(ds) THEN 0
    ELSE DigitVal(ds[k]) * Pow10(Len(ds) - k) + PlaceSum(ds, k + 1)

\* the number a text of digits denotes (read for texts of at most 9
\* significant digits only)
DigitsValue(ds) == PlaceSum(StripZeros(ds), 1)

\* the number the digits denote lies within the part's boundaries
DigitsInBounds(part, ds) ==
    /\ IsDigits(ds)
    /\ Len(StripZeros(ds)) <= 2
    /\ DigitsValue(ds) >= Min(part)
    /\ DigitsValue(ds) <= Max(part)

RECURSIVE Split(_, _)
\* the pieces of t between the occurrences of the character c
Split(t, c) ==
    IF \A k \in 1..Len(t) : t[k] # c THEN <<t>>
    ELSE LET k == CHOOSE k \in 1..Len(t) : t[k] = c /\ \A j \in 1..(k - 1) : t[j] # c
         IN  <<Take(t, k - 1)>> \o Split(Drop(t, k), c)

IsNumberAtom(part, a) == DigitsInBounds(part, a)

IsAnyAtom(a) == a = <<"*">>

IsStepAtom(part, a) ==
    Len(a) >= 3 /\ a[1] = "*" /\ a[2] = "/" /\ DigitsInBounds(part, Drop(a, 2))

IsRangeAtom(part, a) ==
    LET p == Split(a, "-") IN
    /\ Len(p) = 2
    /\ DigitsInBounds(part, p[1])
    /\ DigitsInBounds(part, p[2])
    /\ DigitsValue(p[1]) < DigitsValue(p[2])

ValidAtom(part, a) ==
    IsNumberAtom(part, a) \/ IsAnyAtom(a) \/ IsStepAtom(part, a) \/ IsRangeAtom(part, a)

\* the Value a valid atom denotes
AtomValue(part, a) ==
    IF IsAnyAtom(a) THEN Any
    ELSE IF IsStepAtom(part, a) THEN Step(DigitsValue(Drop(a, 2)))
    ELSE IF IsRangeAtom(part, a)
         THEN Range(DigitsValue(Split(a, "-")[1]), DigitsValue(Split(a, "-")[2]))
    ELSE Number(DigitsValue(a))

Atoms(field) == Split(field, ",")

ValidField(part, field) == \A k \in 1..Len(Atoms(field)) : ValidAtom(part, Atoms(field)[k])

FieldValues(part, field) == [k \in 1..Len(Atoms(field)) |-> AtomValue(part, Atoms(field)[k])]

\* the fields of a whole expression: the pieces between its spaces
Fields(t) == Split(t, " ")

(***************************************************************************)
(* Properties of the field parsers (SpecValue).                            *)
(***************************************************************************)
Canonical(ds) == IsDigits(ds) /\ StripZeros(ds) = ds

\* C3: for lo < hi inside the boundaries, crontab_value on "lo-hi" returns
\* Range(lo, hi) with the whole text consumed; on "hi-lo" and on "n-n" (inside
\* the boundaries) it fails, returning no value at all.
C3_RangeOrFail ==
    vFn = "crontab_value" =>
        LET p == Split(vText, "-") IN
        (Len(p) = 2 /\ Canonical(p[1]) /\ Canonical(p[2])
            /\ DigitsInBounds(vPart, p[1]) /\ DigitsInBounds(vPart, p[2]))
        => IF DigitsValue(p[1]) < DigitsValue(p[2])
           THEN vOut = Ok(<<>>, Range(DigitsValue(p[1]), DigitsValue(p[2])))
           ELSE ~vOut.ok

\* C4: crontab_value on "*" returns Any; on "*/d" with d inside the boundaries
\* it returns Step(d) with the whole text consumed; on "*/d" with d outside the
\* boundaries it fails.
C4_WildcardStep ==
    vFn = "crontab_value" =>
        /\ vText = <<"*">> => vOut = Ok(<<>>, Any)
        /\ (Len(vText) >= 3 /\ vText[1] = "*" /\ vText[2] = "/" /\ Canonical(Drop(vText, 2)))
           => IF DigitsInBounds(vPart, Drop(vText, 2))
              THEN vOut = Ok(<<>>, Step(DigitsValue(Drop(vText, 2))))
              ELSE ~vOut.ok

\* C5: for each part with boundaries (min, max), crontab_value on the decimal
\* text of min and of max returns Number(min) and Number(max); on the decimal
\* text of max + 1, and of min - 1 where min >= 1, it fails.
C5_BoundaryNumbers ==
    vFn = "crontab_value" =>
        /\ vText = Dec(Min(vPart)) => vOut = Ok(<<>>, Number(Min(vPart)))
        /\ vText = Dec(Max(vPart)) => vOut = Ok(<<>>, Number(Max(vPart)))
        /\ vText = Dec(Max(vPart) + 1) => ~vOut.ok
        /\ (Min(vPart) >= 1 /\ vText = Dec(Min(vPart) - 1)) => ~vOut.ok

C5_Witness ==
    /\ vFn = "crontab_value"
    /\ vPart = "Days"
    /\ vText = Dec(Max(vPart) + 1)
    /\ ~vOut.ok

\* C7: on a comma-joined text of n >= 1 atoms, each valid for the part,
\* crontab_values returns exactly the n Values of the atoms in textual order,
\* duplicates kept, and consumes the whole text.
C7_ListInOrder ==
    (vFn = "crontab_values" /\ ValidField(vPart, vText))
        => vOut = Ok(<<>>, FieldValues(vPart, vText))

C7_Witness ==
    /\ vFn = "crontab_values"
    /\ ValidField(vPart, vText)
    /\ Len(Atoms(vText)) = 3
    /\ Atoms(vText)[1] = Atoms(vText)[2]
    /\ Atoms(vText)[3] # Atoms(vText)[1]
    /\ vOut.ok
    /\ Len(vOut.val) = 3
    /\ vOut.val[1] = vOut.val[2]

\* C9: crontab_number reads the maximal run of decimal digits and never a
\* shorter prefix of it: with no leading digit ('+', '-', anything else, or
\* nothing) it fails; if the value of the whole run is outside the boundaries
\* it fails and consumes nothing; otherwise it returns that value and stops at
\* the end of the run, so the first unconsumed character is no digit.
C9_MaximalDigitRun ==
    vFn = "crontab_number" =>
        LET k == DigitRun(vText) IN
        /\ IF k > 0 /\ DigitsInBounds(vPart, Take(vText, k))
           THEN vOut = Ok(Drop(vText, k), DigitsValue(Take(vText, k)))
           ELSE vOut = Err(vText)
        /\ vOut.ok => (vOut.rest = <<>> \/ vOut.rest[1] \notin Digit)

C9_Witness ==
    /\ vFn = "crontab_number"
    /\ DigitRun(vText) = 2
    /\ ~DigitsInBounds(vPart, Take(vText, 2))
    /\ DigitsInBounds(vPart, Take(vText, 1))
    /\ vOut = Err(vText)

(***************************************************************************)
(* Properties of nom_crontab_timer (SpecTimer).                            *)
(***************************************************************************)
InBounds(part, n) == n >= Min(part) /\ n <= Max(part)

ValueWithin(part, v) ==
    \/ v = Any
    \/ Len(v) = 2 /\ v[1] = "Number" /\ InBounds(part, v[2])
    \/ Len(v) = 2 /\ v[1] = "Step" /\ InBounds(part, v[2])
    \/ Len(v) = 3 /\ v[1] = "Range" /\ InBounds(part, v[2]) /\ InBounds(part, v[3])
                  /\ v[2] < v[3]

SequenceWithin(part, vs) ==
    Len(vs) >= 1 /\ \A k \in 1..Len(vs) : ValueWithin(part, vs[k])

Returned == pc = "done"

\* the text a successful call consumed
Consumed == Take(arg, Len(arg) - Len(result.rest))

\* C1: in a returned Crontab Timer each of the five sequences has length >= 1,
\* every Number, Range endpoint and Step stride lies within the boundaries of
\* its field, and every Range(lo, hi) has lo < hi.
C1_TimerInvariant ==
    (Returned /\ result.ok) =>
        /\ SequenceWithin("Minute", result.val.minutes)
        /\ SequenceWithin("Hours", result.val.hours)
        /\ SequenceWithin("Days", result.val.days)
        /\ SequenceWithin("Months", result.val.months)
        /\ SequenceWithin("DaysOfWeek", result.val.dows)

C1_Witness ==
    /\ Returned /\ result.ok
    /\ \E k \in 1..Len(result.val.minutes) : result.val.minutes[k][1] = "Range"
    /\ \E k \in 1..Len(result.val.days) : result.val.days[k][1] = "Step"
    /\ \E k \in 1..Len(result.val.dows) : result.val.dows[k][1] = "Number"

\* C2: no partial success: if any comma-separated atom of any of the five
\* fields (a field's text being the characters up to the next space, or to the
\* end of the input) is invalid, the call returns a failure.
C2_NoPartialSuccess ==
    (Returned /\ \E k \in 1..5 : k <= Len(Fields(arg))
                                  /\ ~ValidField(PartOf[k], Fields(arg)[k]))
        => ~result.ok

WellFormed(t) ==
    Len(Fields(t)) >= 5 /\ \A k \in 1..5 : ValidField(PartOf[k], Fields(t)[k])

\* the length of the five fields of a well-formed text and their four spaces
ExpressionLen(t) ==
    Len(Fields(t)[1]) + Len(Fields(t)[2]) + Len(Fields(t)[3]) + Len(Fields(t)[4])
        + Len(Fields(t)[5]) + 4

\* C6: on a well-formed five-field expression followed by nothing or by text
\* that begins with a space, the call succeeds, returns the Values of the atoms
\* of the five fields in field order, and returns exactly the text after the
\* fifth field as the remainder.
C6_WellFormedParses ==
    (Returned /\ WellFormed(arg)) =>
        result = Ok(Drop(arg, ExpressionLen(arg)),
                    CrontabTimer(FieldValues("Minute", Fields(arg)[1]),
                                 FieldValues("Hours", Fields(arg)[2]),
                                 FieldValues("Days", Fields(arg)[3]),
                                 FieldValues("Months", Fields(arg)[4]),
                                 FieldValues("DaysOfWeek", Fields(arg)[5])))

C6_Witness ==
    /\ Returned /\ WellFormed(arg)
    /\ Len(Atoms(Fields(arg)[5])) = 2
    /\ Len(arg) > ExpressionLen(arg)
    /\ result.ok
    /\ result.rest = Drop(arg, ExpressionLen(arg))

\* how many fields the call has read so far
FieldsRead ==
    CASE pc = "minutes" -> 0 [] pc = "hours" -> 1 [] pc = "days" -> 2
      [] pc = "months" -> 3 [] pc = "dows" -> 4 [] OTHER -> 5

\* C8: fields are separated by exactly one space: the call fails when the input
\* starts with a space, when two spaces follow each other between fields, and
\* when the input ends before a fifth non-empty field; and each of the first
\* four fields it reads is non-empty and immediately followed by one space, the
\* next field starting right after it.
C8_SingleSpaces ==
    /\ (Returned /\ (Len(Fields(arg)) < 5 \/ \E k \in 1..5 : Fields(arg)[k] = <<>>))
           => ~result.ok
    /\ (pc \in {"hours", "days", "months", "dows"}) =>
           LET p == Split(Take(arg, Len(arg) - Len(input)), " ") IN
           /\ Len(p) = FieldsRead + 1
           /\ p[Len(p)] = <<>>
           /\ \A k \in 1..FieldsRead : p[k] # <<>>
    /\ (Returned /\ result.ok) =>
           LET p == Split(Consumed, " ") IN
           Len(p) = 5 /\ \A k \in 1..5 : p[k] # <<>>

C8_Witness ==
    /\ Returned /\ ~result.ok
    /\ Len(Fields(arg)) >= 6
    /\ Fields(arg)[1] # <<>>
    /\ \E k \in 2..5 : Fields(arg)[k] = <<>>

\* C10: prefix closure: when the call succeeds with timer T and remainder R,
\* the input is the consumed prefix followed by R, and the call on the consumed
\* prefix alone succeeds with the same T and an empty remainder.
C10_PrefixClosure ==
    (Returned /\ result.ok) =>
        /\ Len(result.rest) <= Len(arg)
        /\ arg = Consumed \o result.rest
        /\ nom_crontab_timer(Consumed) = Ok(<<>>, result.val)

C10_Witness ==
    /\ Returned /\ result.ok
    /\ result.rest # <<>>
    /\ result.rest[1] # " "
    /\ nom_crontab_timer(Consumed).ok

====
